---- MODULE Spec2Model ----
(***************************************************************************)
(* A model of GoogleBusinessProfileAnalyzer (src/main.py): the analyzer    *)
(* object (self.reviews, self.nlp), its environment (the Takeout directory *)
(* with its review files, the spaCy model, the output directory) and its   *)
(* operations load_reviews, filter_reviews, extract_person_names,          *)
(* export_reviews_to_csv, export_name_analysis_to_csv and analyze.         *)
(*                                                                         *)
(* A Python dict is a function whose DOMAIN is its set of keys; a Python   *)
(* list is a sequence; a keyword argument left at its default None is a    *)
(* key missing from the argument dict.                                     *)
(***************************************************************************)
EXTENDS Integers, Sequences, FiniteSets, Bags, TLC

VARIABLES
    takeout_exists,  \* self.takeout_dir.exists()
    review_files,    \* the reviews*.json files of the directory, each with its content
    spacy_installed, \* whether spacy.load("en_core_web_sm") succeeds
    reviews,         \* self.reviews
    nlp,             \* self.nlp: None or "en_core_web_sm"
    csv,             \* the output directory: file name -> rows written
    call_args,       \* the arguments the caller passes to the operation it calls
    ret,             \* the last completed call: its name, arguments and return value
    pc,              \* analyze: the statement the running call is at
    frame,           \* analyze: the arguments and locals of the running call
    events           \* analyze: what the running call has done so far, in order

vars == <<takeout_exists, review_files, spacy_installed, reviews, nlp, csv,
          call_args, ret, pc, frame, events>>

----------------------------------------------------------------------------
(* Bounds of the model *)

MaxReviews == 2
MaxFiles == 2

----------------------------------------------------------------------------
(* Python values *)

\* Python's None (JSON null) among string values
None == "<None>"

\* {}
EmptyDict == [k \in {} |-> None]

\* d.get(k, default)
Get(d, k, default) == IF k \in DOMAIN d THEN d[k] ELSE default

\* bool(v) of a string-or-None value
Truthy(v) == v # None /\ v # ""

\* x in lst
InList(x, lst) == \E i \in DOMAIN lst : lst[i] = x

\* the sequences over S of length at most n
SeqsUpTo(S, n) == UNION {[1..k -> S] : k \in 0..n}

\* the elements of a list
Range(s) == {s[i] : i \in DOMAIN s}

\* str.upper(), on the rating strings of the model
Upper(s) ==
    CASE s = "five" -> "FIVE"
      [] s = "four" -> "FOUR"
      [] OTHER -> s

----------------------------------------------------------------------------
(* datetime.fromisoformat(update_time.replace('Z', '+00:00')) *)

Ts_2025_08 == "2025-08-01T00:00:00Z"
Ts_2025_07 == "2025-07-01T00:00:00Z"
Ts_2024_08 == "2024-08-15T10:30:00+00:00"
Ts_Invalid == "not-a-date"

\* update_time.replace('Z', '+00:00')
ReplaceZ(s) ==
    CASE s = "2025-08-01T00:00:00Z" -> "2025-08-01T00:00:00+00:00"
      [] s = "2025-07-01T00:00:00Z" -> "2025-07-01T00:00:00+00:00"
      [] OTHER -> s

\* datetime.fromisoformat(s): the date, or the ValueError it raises. A trailing
\* "Z" is not ISO-8601 to fromisoformat (before Python 3.11).
FromIsoFormat(s) ==
    CASE s = "2025-08-01T00:00:00+00:00" -> [ok |-> TRUE, year |-> 2025, month |-> 8]
      [] s = "2025-07-01T00:00:00+00:00" -> [ok |-> TRUE, year |-> 2025, month |-> 7]
      [] s = "2024-08-15T10:30:00+00:00" -> [ok |-> TRUE, year |-> 2024, month |-> 8]
      [] OTHER -> [ok |-> FALSE, year |-> 0, month |-> 0]

----------------------------------------------------------------------------
(* filter_reviews *)

\* RatingSkips with the .upper() of line 140 forgotten
RatingSkips_NoUpper(review, args) ==
    /\ "star_ratings" \in DOMAIN args
    /\ args.star_ratings # <<>>
    /\ ~InList(Get(review, "starRating", ""), args.star_ratings)

\* lines 139-142: the rating filter says `continue`
RatingSkips(review, args) ==
    /\ "star_ratings" \in DOMAIN args
    /\ args.star_ratings # <<>>
    /\ ~InList(Upper(Get(review, "starRating", "")), args.star_ratings)

\* DateMismatch skipping a record only when its year and its month both differ
DateMismatch_Either(update_time, args) ==
    LET dt == FromIsoFormat(ReplaceZ(update_time))
    IN  IF dt.ok
        THEN IF "year" \in DOMAIN args /\ "month" \in DOMAIN args
             THEN dt.year # args.year /\ dt.month # args.month
             ELSE \/ ("year" \in DOMAIN args /\ dt.year # args.year)
                  \/ ("month" \in DOMAIN args /\ dt.month # args.month)
        ELSE TRUE

\* lines 148-156: the body of `if update_time:` says `continue`
DateMismatch(update_time, args) ==
    LET dt == FromIsoFormat(ReplaceZ(update_time))
    IN  IF dt.ok
        THEN \/ ("year" \in DOMAIN args /\ dt.year # args.year)
             \/ ("month" \in DOMAIN args /\ dt.month # args.month)
        ELSE TRUE

\* lines 145-156: the date filter says `continue`
DateSkips(review, args) ==
    /\ ("year" \in DOMAIN args \/ "month" \in DOMAIN args)
    /\ LET update_time == Get(review, "updateTime", None)
       IN  Truthy(update_time) /\ DateMismatch(update_time, args)

\* Keep inserting at the front of the list
Keep_Prepend(filtered_reviews, review) == <<review>> \o filtered_reviews

\* line 158: filtered_reviews.append(review)
Keep(filtered_reviews, review) == Append(filtered_reviews, review)

\* lines 135-160: the loop over self.reviews, from its i-th record on
RECURSIVE FilterFrom(_, _, _, _)
FilterFrom(revs, i, args, filtered_reviews) ==
    IF i > Len(revs) THEN filtered_reviews
    ELSE IF RatingSkips(revs[i], args) \/ DateSkips(revs[i], args)
         THEN FilterFrom(revs, i + 1, args, filtered_reviews)
         ELSE FilterFrom(revs, i + 1, args, Keep(filtered_reviews, revs[i]))

filter_reviews(revs, args) == FilterFrom(revs, 1, args, <<>>)

----------------------------------------------------------------------------
(* The inputs of filter_reviews *)

StarFields == {EmptyDict} \cup {[starRating |-> v] : v \in {"FIVE", "five", "FOUR"}}
TimeFields == {EmptyDict} \cup
    {[updateTime |-> v] : v \in {None, "", Ts_2025_08, Ts_2025_07, Ts_2024_08, Ts_Invalid}}
FilterRecords == {s @@ u : s \in StarFields, u \in TimeFields}

YearArgs == {EmptyDict, [year |-> 2025]}
MonthArgs == {EmptyDict, [month |-> 8]}
StarArgs == {EmptyDict} \cup
    {[star_ratings |-> v] : v \in {<<>>, <<"FIVE">>, <<"FOUR", "FIVE">>, <<"", "FOUR">>}}
FilterArgs == {y @@ m @@ s : y \in YearArgs, m \in MonthArgs, s \in StarArgs}

\* the parts of the state an operation leaves alone
Env == <<takeout_exists, review_files, spacy_installed>>
Call == <<pc, frame, events>>

InitIdle ==
    /\ nlp = None
    /\ csv = EmptyDict
    /\ ret = [op |-> "none"]
    /\ pc = "idle"
    /\ frame = EmptyDict
    /\ events = <<>>

InitFilter ==
    /\ takeout_exists = TRUE
    /\ review_files = <<>>
    /\ spacy_installed = TRUE
    /\ reviews \in SeqsUpTo(FilterRecords, MaxReviews)
    /\ call_args \in FilterArgs
    /\ InitIdle

\* a call of filter_reviews(year, month, star_ratings)
FilterReviews ==
    /\ ret' = [op |-> "filter_reviews", args |-> call_args,
               value |-> filter_reviews(reviews, call_args)]
    /\ UNCHANGED <<Env, reviews, nlp, csv, call_args, Call>>

NextFilter == FilterReviews

SpecFilter == InitFilter /\ [][NextFilter]_vars

----------------------------------------------------------------------------
(* load_spacy_model and extract_person_names *)

\* self.nlp(comment).ents: a stand-in for the spaCy pipeline, which gives each
\* comment its labelled spans, in order
Nlp(comment) ==
    CASE comment = "Thanks John!" ->
            <<[text |-> "John", label_ |-> "PERSON"]>>
      [] comment = "John was great, ask for John" ->
            <<[text |-> "John", label_ |-> "PERSON"], [text |-> "John", label_ |-> "PERSON"]>>
      [] comment = "Mary or John  at Acme" ->
            <<[text |-> "Mary", label_ |-> "PERSON"], [text |-> "John ", label_ |-> "PERSON"],
              [text |-> "Acme", label_ |-> "ORG"]>>
      [] OTHER -> <<>>

\* str.strip(), on the span texts of the model
Strip(s) ==
    CASE s = "John " -> "John"
      [] OTHER -> s

\* line 184: review.get("name", review.get("reviewId", "unknown"))
ReviewId(review) == Get(review, "name", Get(review, "reviewId", "unknown"))

\* A dict whose key order matters (Python keeps the insertion order) is a record
\* of its keys, in insertion order, and its values (at).
EmptyOrderedDict == [keys |-> <<>>, at |-> EmptyDict]

\* AddMention replacing the set of a name instead of adding to it
AddMention_Overwrite(name_to_review_ids, name, review_id) ==
    IF name \in DOMAIN name_to_review_ids.at
    THEN [name_to_review_ids EXCEPT !.at[name] = {review_id}]
    ELSE [keys |-> Append(name_to_review_ids.keys, name),
          at |-> name_to_review_ids.at @@ (name :> {review_id})]

\* line 188: name_to_review_ids[name].add(review_id), on a defaultdict(set)
AddMention(name_to_review_ids, name, review_id) ==
    IF name \in DOMAIN name_to_review_ids.at
    THEN [name_to_review_ids EXCEPT !.at[name] = @ \cup {review_id}]
    ELSE [keys |-> Append(name_to_review_ids.keys, name),
          at |-> name_to_review_ids.at @@ (name :> {review_id})]

\* lines 186-188: the loop over doc.ents, from its j-th span on
RECURSIVE EntsFrom(_, _, _, _)
EntsFrom(ents, j, review_id, name_to_review_ids) ==
    IF j > Len(ents) THEN name_to_review_ids
    ELSE IF ents[j].label_ = "PERSON"
         THEN EntsFrom(ents, j + 1, review_id,
                       AddMention(name_to_review_ids, Strip(ents[j].text), review_id))
         ELSE EntsFrom(ents, j + 1, review_id, name_to_review_ids)

\* lines 178-188: the loop over the reviews, from its i-th record on
RECURSIVE ExtractFrom(_, _, _)
ExtractFrom(revs, i, name_to_review_ids) ==
    IF i > Len(revs) THEN name_to_review_ids
    ELSE LET comment == Get(revs[i], "comment", "")
         IN  IF ~Truthy(comment)
             THEN ExtractFrom(revs, i + 1, name_to_review_ids)
             ELSE ExtractFrom(revs, i + 1,
                              EntsFrom(Nlp(comment), 1, ReviewId(revs[i]), name_to_review_ids))

\* line 191: {name: len(ids) for name, ids in name_to_review_ids.items()}
NameCounts(name_to_review_ids) ==
    [keys |-> name_to_review_ids.keys,
     at |-> [name \in DOMAIN name_to_review_ids.at |->
                Cardinality(name_to_review_ids.at[name])]]

\* lines 172-192
extract_person_names(the_nlp, revs) ==
    IF the_nlp = None THEN EmptyOrderedDict
    ELSE NameCounts(ExtractFrom(revs, 1, EmptyOrderedDict))

\* The inputs of extract_person_names
CommentFields == {EmptyDict} \cup
    {[comment |-> v] : v \in {"", "Thanks John!", "John was great, ask for John",
                              "Mary or John  at Acme", "No names here"}}
NameFields == {EmptyDict} \cup {[name |-> v] : v \in {"reviews/1", "reviews/2"}}
ReviewIdFields == {EmptyDict, [reviewId |-> "reviews/1"]}
ExtractRecords == {c @@ n @@ r : c \in CommentFields, n \in NameFields, r \in ReviewIdFields}

InitExtract ==
    /\ takeout_exists = TRUE
    /\ review_files = <<>>
    /\ spacy_installed \in BOOLEAN
    /\ reviews = <<>>
    /\ call_args \in {[reviews |-> l] : l \in SeqsUpTo(ExtractRecords, MaxReviews)}
    /\ InitIdle

\* lines 68-74: a call of load_spacy_model()
LoadSpacyModel ==
    /\ nlp' = IF spacy_installed THEN "en_core_web_sm" ELSE nlp
    /\ ret' = [op |-> "load_spacy_model", value |-> spacy_installed]
    /\ UNCHANGED <<Env, reviews, csv, call_args, Call>>

\* a call of extract_person_names(reviews)
ExtractPersonNames ==
    /\ ret' = [op |-> "extract_person_names", args |-> call_args, loaded |-> nlp # None,
               value |-> extract_person_names(nlp, call_args.reviews)]
    /\ UNCHANGED <<Env, reviews, nlp, csv, call_args, Call>>

NextExtract == LoadSpacyModel \/ ExtractPersonNames

SpecExtract == InitExtract /\ [][NextExtract]_vars

----------------------------------------------------------------------------
(* load_reviews *)

\* A review file is what open() and json.load() make of it: the exception they
\* raise (err), or the type of the decoded value (type) and the value (data).

\* the one-to-one maps of 1..n: the orders in which glob can yield n files
Orders(n) == {f \in [1..n -> 1..n] : \A i, j \in 1..n : f[i] = f[j] => i = j}

\* Caught without UnicodeDecodeError
Caught_JsonOnly(err) == err = "JSONDecodeError"

\* line 113: except (json.JSONDecodeError, UnicodeDecodeError)
Caught(err) == err \in {"JSONDecodeError", "UnicodeDecodeError"}

\* AddFile appending a bare list as one record
AddFile_AppendList(loaded, file) ==
    IF file.type = "dict"
    THEN IF "reviews" \in DOMAIN file.data
         THEN loaded \o file.data.reviews
         ELSE Append(loaded, file.data)
    ELSE IF file.type = "list"
         THEN Append(loaded, file.data)
         ELSE loaded

\* lines 101-111: what a decoded file adds to self.reviews
AddFile(loaded, file) ==
    IF file.type = "dict"
    THEN IF "reviews" \in DOMAIN file.data
         THEN loaded \o file.data.reviews
         ELSE Append(loaded, file.data)
    ELSE IF file.type = "list"
         THEN loaded \o file.data
         ELSE loaded

\* lines 95-115: the loop over review_files, from the k-th discovered file on;
\* an exception that is not caught ends the call
RECURSIVE LoadFrom(_, _, _, _)
LoadFrom(files, order, k, loaded) ==
    IF k > Len(files) THEN [reviews |-> loaded, raised |-> "none"]
    ELSE LET file == files[order[k]]
         IN  IF file.err = "none"
             THEN LoadFrom(files, order, k + 1, AddFile(loaded, file))
             ELSE IF Caught(file.err)
                  THEN LoadFrom(files, order, k + 1, loaded)
                  ELSE [reviews |-> loaded, raised |-> file.err]

\* lines 83-118: self.reviews after the call, the exception that escaped it and
\* the value it returned
load_reviews(exists, files, order, self_reviews) ==
    IF ~exists
    THEN [reviews |-> self_reviews, raised |-> "none", value |-> 0]
    ELSE LET r == LoadFrom(files, order, 1, <<>>)
         IN  [reviews |-> r.reviews, raised |-> r.raised, value |-> Len(r.reviews)]

\* The review files of the model
RecordA == [reviewId |-> "a"]
RecordB == [reviewId |-> "b", comment |-> "Thanks John!"]
LoadRecords == {RecordA, RecordB}
RecordLists == {<<>>, <<RecordA>>, <<RecordA, RecordB>>, <<RecordB, RecordA>>}
FileContents ==
    {[err |-> "none", type |-> "dict", data |-> [reviews |-> l]] : l \in RecordLists}
    \cup {[err |-> "none", type |-> "dict", data |-> r] : r \in LoadRecords}
    \cup {[err |-> "none", type |-> "list", data |-> l] : l \in RecordLists}
    \cup {[err |-> "none", type |-> "other", data |-> "42"]}
    \cup {[err |-> e, type |-> "other", data |-> None] :
            e \in {"JSONDecodeError", "UnicodeDecodeError"}}

InitLoad ==
    /\ takeout_exists \in BOOLEAN
    /\ review_files \in SeqsUpTo(FileContents, MaxFiles)
    /\ spacy_installed = TRUE
    /\ reviews = <<>>
    /\ call_args = EmptyDict
    /\ InitIdle

\* a call of load_reviews(); glob yields the files in some order
LoadReviews ==
    \E order \in Orders(Len(review_files)) :
        LET r == load_reviews(takeout_exists, review_files, order, reviews)
        IN  /\ reviews' = r.reviews
            /\ ret' = [op |-> "load_reviews", existed |-> takeout_exists, order |-> order,
                       raised |-> r.raised, value |-> r.value]
            /\ UNCHANGED <<Env, nlp, csv, call_args, Call>>

\* the Takeout directory is removed, or extracted again, between two calls
TakeoutChanges ==
    /\ takeout_exists' = ~takeout_exists
    /\ UNCHANGED <<review_files, spacy_installed, reviews, nlp, csv, call_args, ret, Call>>

NextLoad == LoadReviews \/ TakeoutChanges

SpecLoad == InitLoad /\ [][NextLoad]_vars

----------------------------------------------------------------------------
(* export_reviews_to_csv and export_name_analysis_to_csv *)

\* lines 252-253: the columns of the review export (with pandas, the keys of the
\* row dicts of lines 236-245, in the same order)
ReviewFieldnames ==
    <<"review_id", "reviewer_name", "star_rating", "comment", "create_time",
      "update_time", "reviewer_photo_url", "review_reply">>

\* the truth value of review.get("reviewReply")
HasReply(review) == "reviewReply" \in DOMAIN review /\ DOMAIN review.reviewReply # {}

\* ReviewRow reading the photo URL from the record instead of its reviewer
ReviewRow_TopLevelPhoto(review) ==
    LET reviewer == Get(review, "reviewer", EmptyDict)
    IN  [review_id |-> Get(review, "reviewId", Get(review, "name", "")),
         reviewer_name |-> Get(reviewer, "displayName", "Anonymous"),
         star_rating |-> Get(review, "starRating", ""),
         comment |-> Get(review, "comment", ""),
         create_time |-> Get(review, "createTime", ""),
         update_time |-> Get(review, "updateTime", ""),
         reviewer_photo_url |-> Get(review, "profilePhotoUrl", ""),
         review_reply |-> IF HasReply(review) THEN Get(review.reviewReply, "comment", "")
                          ELSE ""]

\* lines 235-245 (with pandas) and 258-268 (with csv.DictWriter): the row of a record
ReviewRow(review) ==
    LET reviewer == Get(review, "reviewer", EmptyDict)
    IN  [review_id |-> Get(review, "reviewId", Get(review, "name", "")),
         reviewer_name |-> Get(reviewer, "displayName", "Anonymous"),
         star_rating |-> Get(review, "starRating", ""),
         comment |-> Get(review, "comment", ""),
         create_time |-> Get(review, "createTime", ""),
         update_time |-> Get(review, "updateTime", ""),
         reviewer_photo_url |-> Get(reviewer, "profilePhotoUrl", ""),
         review_reply |-> IF HasReply(review) THEN Get(review.reviewReply, "comment", "")
                          ELSE ""]

\* lines 233-245, 257-268: one row per record, in the order of the list
ReviewRows(revs) == [i \in 1..Len(revs) |-> ReviewRow(revs[i])]

\* the output directory with a file written (created or replaced)
Written(out, filename, content) ==
    [f \in DOMAIN out \cup {filename} |-> IF f = filename THEN content ELSE out[f]]

\* lines 224-270: the output directory after export_reviews_to_csv(revs, filename)
export_reviews_to_csv(out, revs, filename) ==
    IF revs = <<>> THEN out
    ELSE Written(out, filename, [columns |-> ReviewFieldnames, rows |-> ReviewRows(revs)])

\* lines 291, 301: sorted(name_counts.items(), key=lambda x: -x[1]), a stable sort
\* of the names in insertion order: name goes behind the names counted no less
RECURSIVE InsertByCount(_, _, _)
InsertByCount(sorted, name, at) ==
    IF sorted = <<>> THEN <<name>>
    ELSE IF at[Head(sorted)] >= at[name]
         THEN <<Head(sorted)>> \o InsertByCount(Tail(sorted), name, at)
         ELSE <<name>> \o sorted

RECURSIVE SortedByCount(_, _, _)
SortedByCount(keys, k, at) ==
    IF k = 0 THEN <<>>
    ELSE InsertByCount(SortedByCount(keys, k - 1, at), keys[k], at)

\* lines 280-307: the output directory after export_name_analysis_to_csv
export_name_analysis_to_csv(out, name_counts, filename) ==
    IF name_counts.keys = <<>> THEN out
    ELSE LET names == SortedByCount(name_counts.keys, Len(name_counts.keys), name_counts.at)
         IN  Written(out, filename,
                     [columns |-> <<"person_name", "mention_count">>,
                      rows |-> [i \in 1..Len(names) |->
                                  [person_name |-> names[i],
                                   mention_count |-> name_counts.at[names[i]]]]])

\* The inputs of export_reviews_to_csv
ExportIdFields ==
    {EmptyDict, [name |-> "reviews/1"], [reviewId |-> "r1", name |-> "reviews/1"]}
ExportReviewerFields ==
    {EmptyDict, [reviewer |-> [displayName |-> "Ann"]],
     [reviewer |-> [profilePhotoUrl |-> "https://photos/ann"]]}
ExportReplyFields ==
    {EmptyDict, [reviewReply |-> EmptyDict], [reviewReply |-> [comment |-> "Thank you"]]}
ExportPlainFields ==
    {EmptyDict,
     [starRating |-> "FIVE", comment |-> "Thanks John!",
      createTime |-> Ts_2025_07, updateTime |-> Ts_2025_08]}
ExportRecords ==
    {i @@ r @@ y @@ p : i \in ExportIdFields, r \in ExportReviewerFields,
                        y \in ExportReplyFields, p \in ExportPlainFields}

InitExport ==
    /\ takeout_exists = TRUE
    /\ review_files = <<>>
    /\ spacy_installed = TRUE
    /\ reviews = <<>>
    /\ call_args \in {[reviews |-> l, filename |-> "reviews.csv"] :
                        l \in SeqsUpTo(ExportRecords, MaxReviews)}
    /\ InitIdle

\* a call of export_reviews_to_csv(reviews, filename)
ExportReviewsToCsv ==
    /\ csv' = export_reviews_to_csv(csv, call_args.reviews, call_args.filename)
    /\ ret' = [op |-> "export_reviews_to_csv", args |-> call_args, value |-> None]
    /\ UNCHANGED <<Env, reviews, nlp, call_args, Call>>

NextExport == ExportReviewsToCsv

SpecExport == InitExport /\ [][NextExport]_vars

----------------------------------------------------------------------------
(* analyze, statement by statement *)

\* the reviews of the analyzed directory
Review1 ==
    [name |-> "reviews/1", starRating |-> "FIVE", comment |-> "Thanks John!",
     updateTime |-> Ts_2025_08]
Review2 ==
    [name |-> "reviews/2", starRating |-> "FOUR",
     comment |-> "John was great, ask for John", updateTime |-> Ts_2025_07]
Review3 == [starRating |-> "FIVE", comment |-> "No names here", updateTime |-> Ts_2024_08]
AnalyzeFiles ==
    {[err |-> "none", type |-> "dict", data |-> [reviews |-> <<Review1, Review2>>]],
     [err |-> "none", type |-> "list", data |-> <<Review3>>]}

\* the arguments of analyze
AnalyzeArgs ==
    {y @@ s @@ r @@ n :
        y \in YearArgs,
        s \in {EmptyDict, [star_ratings |-> <<"FIVE">>]},
        r \in {EmptyDict, [export_reviews_csv |-> "reviews.csv"]},
        n \in {EmptyDict, [export_names_csv |-> "names.csv"]}}

\* line 344: year=year, month=month, star_ratings=star_ratings
FilterArgsOf(args) ==
    [k \in DOMAIN args \cap {"year", "month", "star_ratings"} |-> args[k]]

\* lines 336, 341, 360: return [], {}
NothingFound == <<<<>>, EmptyOrderedDict>>

InitAnalyze ==
    /\ takeout_exists \in BOOLEAN
    /\ review_files \in SeqsUpTo(AnalyzeFiles, MaxFiles)
    /\ spacy_installed \in BOOLEAN
    /\ reviews = <<>>
    /\ call_args = EmptyDict
    /\ InitIdle

\* a call of analyze(...): its arguments and its locals; no call has completed
\* since
AnalyzeCall ==
    /\ pc = "idle"
    /\ \E args \in AnalyzeArgs :
        /\ call_args' = args
        /\ frame' = [args |-> args, filtered_reviews |-> <<>>,
                     name_counts |-> EmptyOrderedDict, csv_at_call |-> csv]
    /\ events' = <<>>
    /\ ret' = [op |-> "none"]
    /\ pc' = "load"
    /\ UNCHANGED <<Env, reviews, nlp, csv>>

\* lines 333-336: self.reviews is empty, load_reviews() is called; no review ends
\* the call
AnalyzeLoadReviews ==
    /\ pc = "load"
    /\ reviews = <<>>
    /\ \E order \in Orders(Len(review_files)) :
        LET r == load_reviews(takeout_exists, review_files, order, reviews)
        IN  /\ reviews' = r.reviews
            /\ events' = Append(events, "load_reviews")
            /\ IF r.value = 0
               THEN /\ pc' = "idle"
                    /\ ret' = [op |-> "analyze", args |-> frame.args, value |-> NothingFound]
               ELSE /\ pc' = "nlp"
                    /\ UNCHANGED ret
    /\ UNCHANGED <<Env, nlp, csv, call_args, frame>>

\* line 333: self.reviews holds the reviews of an earlier call
AnalyzeReviewsLoaded ==
    /\ pc = "load"
    /\ reviews # <<>>
    /\ pc' = "nlp"
    /\ UNCHANGED <<Env, reviews, nlp, csv, call_args, ret, frame, events>>

\* AnalyzeLoadModel going on when load_spacy_model() returned False
AnalyzeLoadModel_IgnoreFailure ==
    /\ pc = "nlp"
    /\ nlp = None
    /\ nlp' = IF spacy_installed THEN "en_core_web_sm" ELSE nlp
    /\ events' = Append(events, "load_spacy_model")
    /\ pc' = "filter"
    /\ UNCHANGED <<Env, reviews, csv, call_args, ret, frame>>

\* lines 339-341: self.nlp is not set, load_spacy_model() is called; its failure
\* ends the call
AnalyzeLoadModel ==
    /\ pc = "nlp"
    /\ nlp = None
    /\ nlp' = IF spacy_installed THEN "en_core_web_sm" ELSE nlp
    /\ events' = Append(events, "load_spacy_model")
    /\ IF spacy_installed
       THEN /\ pc' = "filter"
            /\ UNCHANGED ret
       ELSE /\ pc' = "idle"
            /\ ret' = [op |-> "analyze", args |-> frame.args, value |-> NothingFound]
    /\ UNCHANGED <<Env, reviews, csv, call_args, frame>>

\* line 339: self.nlp is set
AnalyzeModelLoaded ==
    /\ pc = "nlp"
    /\ nlp # None
    /\ pc' = "filter"
    /\ UNCHANGED <<Env, reviews, nlp, csv, call_args, ret, frame, events>>

\* lines 344-360: filter_reviews(...); an empty result ends the call
AnalyzeFilter ==
    /\ pc = "filter"
    /\ LET filtered_reviews == filter_reviews(reviews, FilterArgsOf(frame.args))
       IN  /\ frame' = [frame EXCEPT !.filtered_reviews = filtered_reviews]
           /\ IF filtered_reviews = <<>>
              THEN /\ pc' = "idle"
                   /\ ret' = [op |-> "analyze", args |-> frame.args, value |-> NothingFound]
              ELSE /\ pc' = "extract"
                   /\ UNCHANGED ret
    /\ events' = Append(events, "filter_reviews")
    /\ UNCHANGED <<Env, reviews, nlp, csv, call_args>>

\* lines 363-378: the reviews and the names are printed, and between the two
\* name_counts = self.extract_person_names(filtered_reviews)
AnalyzeExtract ==
    /\ pc = "extract"
    /\ frame' = [frame EXCEPT
                    !.name_counts = extract_person_names(nlp, frame.filtered_reviews)]
    /\ events' = Append(events, "extract_person_names")
    /\ pc' = "export_reviews"
    /\ UNCHANGED <<Env, reviews, nlp, csv, call_args, ret>>

\* lines 381-382: the review export, when a file name was given
AnalyzeExportReviews ==
    /\ pc = "export_reviews"
    /\ IF "export_reviews_csv" \in DOMAIN frame.args
       THEN /\ csv' = export_reviews_to_csv(csv, frame.filtered_reviews,
                                            frame.args.export_reviews_csv)
            /\ events' = Append(events, "export_reviews_to_csv")
       ELSE UNCHANGED <<csv, events>>
    /\ pc' = "export_names"
    /\ UNCHANGED <<Env, reviews, nlp, call_args, ret, frame>>

\* lines 384-385: the name export, when a file name was given
AnalyzeExportNames ==
    /\ pc = "export_names"
    /\ IF "export_names_csv" \in DOMAIN frame.args
       THEN /\ csv' = export_name_analysis_to_csv(csv, frame.name_counts,
                                                  frame.args.export_names_csv)
            /\ events' = Append(events, "export_name_analysis_to_csv")
       ELSE UNCHANGED <<csv, events>>
    /\ pc' = "return"
    /\ UNCHANGED <<Env, reviews, nlp, call_args, ret, frame>>

\* line 387: return filtered_reviews, name_counts
AnalyzeReturn ==
    /\ pc = "return"
    /\ ret' = [op |-> "analyze", args |-> frame.args,
               value |-> <<frame.filtered_reviews, frame.name_counts>>]
    /\ pc' = "idle"
    /\ UNCHANGED <<Env, reviews, nlp, csv, call_args, frame, events>>

NextAnalyze ==
    \/ AnalyzeCall
    \/ AnalyzeLoadReviews
    \/ AnalyzeReviewsLoaded
    \/ AnalyzeLoadModel
    \/ AnalyzeModelLoaded
    \/ AnalyzeFilter
    \/ AnalyzeExtract
    \/ AnalyzeExportReviews
    \/ AnalyzeExportNames
    \/ AnalyzeReturn

SpecAnalyze == InitAnalyze /\ [][NextAnalyze]_vars

----------------------------------------------------------------------------
(* Claims about filter_reviews, under SpecFilter *)

FilterDone == ret.op = "filter_reviews"
DateFilterOn(args) == "year" \in DOMAIN args \/ "month" \in DOMAIN args
TimestampAbsent(r) == Get(r, "updateTime", None) \in {None, ""}
ParsedDate(r) == FromIsoFormat(ReplaceZ(r.updateTime))
TimestampParses(r) == ~TimestampAbsent(r) /\ ParsedDate(r).ok
NormalizedRating(r) == Upper(Get(r, "starRating", ""))

\* s is t with some of its elements left out
IsSubsequence(s, t) ==
    \E f \in [1..Len(s) -> 1..Len(t)] :
        /\ \A i \in 1..Len(s) : s[i] = t[f[i]]
        /\ \A i, j \in 1..Len(s) : i < j => f[i] < f[j]

\* C1 (as claimed): whenever a year or a month filter is supplied, every record
\* whose updateTime is absent (missing key, None, empty string) or does not parse
\* is excluded from the returned list.
C1_AbsentOrUnparsableExcluded ==
    (FilterDone /\ DateFilterOn(ret.args)) =>
        \A r \in Range(ret.value) : TimestampParses(r)

\* C2: with no rating filter, a record whose updateTime parses survives iff the
\* parsed year equals the supplied year (when supplied) and the parsed month
\* equals the supplied month (when supplied).
C2_DateMatchIsConjunction ==
    (FilterDone /\ "star_ratings" \notin DOMAIN ret.args) =>
        \A i \in DOMAIN reviews :
            TimestampParses(reviews[i]) =>
                LET dt == ParsedDate(reviews[i])
                    a == ret.args
                IN  (reviews[i] \in Range(ret.value)) <=>
                        /\ ("year" \in DOMAIN a => dt.year = a.year)
                        /\ ("month" \in DOMAIN a => dt.month = a.month)

\* C2's case: year and month both supplied, one record matching both is kept and
\* one matching the year alone is dropped.
C2_Witness ==
    /\ FilterDone
    /\ DOMAIN ret.args = {"year", "month"}
    /\ \E i, j \in DOMAIN reviews :
        /\ Get(reviews[i], "updateTime", None) = Ts_2025_08
        /\ Get(reviews[j], "updateTime", None) = Ts_2025_07
        /\ reviews[i] \in Range(ret.value)
        /\ reviews[j] \notin Range(ret.value)

C4_StableSubsequence ==
    FilterDone =>
        /\ IsSubsequence(ret.value, reviews)
        /\ ret.args = EmptyDict => ret.value = reviews

\* C4's case: no criteria, two different records returned in their order.
C4_Witness ==
    /\ FilterDone
    /\ ret.args = EmptyDict
    /\ Len(reviews) >= 2
    /\ reviews[1] # reviews[2]
    /\ ret.value = reviews

----------------------------------------------------------------------------
(* Claims about extract_person_names, under SpecExtract *)

ExtractDone == ret.op = "extract_person_names" /\ ret.loaded

\* the review identifier: the name field, else reviewId, else the placeholder
Identifier(r) ==
    IF "name" \in DOMAIN r THEN r.name
    ELSE IF "reviewId" \in DOMAIN r THEN r.reviewId
    ELSE "unknown"

\* the person names recognized in the comment of a record
RecognizedIn(r) ==
    IF Get(r, "comment", "") = "" THEN {}
    ELSE LET ents == Nlp(r.comment)
         IN  {Strip(ents[j].text) : j \in {k \in DOMAIN ents : ents[k].label_ = "PERSON"}}

\* the positions of the records of a list in which a name was recognized
Mentioning(name, list) == {i \in DOMAIN list : name \in RecognizedIn(list[i])}

\* C5: every value of the name-count mapping is at least 1, at most the number of
\* records, and the number of distinct review identifiers of the records in which
\* the name was recognized; a name recognized twice in a record counts once for it.
C5_CountsAreDistinctIdentifiers ==
    ExtractDone =>
        LET list == ret.args.reviews
            counts == ret.value.at
        IN  /\ DOMAIN counts = UNION {RecognizedIn(list[i]) : i \in DOMAIN list}
            /\ \A name \in DOMAIN counts :
                /\ counts[name] >= 1
                /\ counts[name] <= Len(list)
                /\ counts[name] =
                     Cardinality({Identifier(list[i]) : i \in Mentioning(name, list)})

\* C5's case: a name recognized twice in one record and once in another record
\* with another identifier has the count 2.
C5_Witness ==
    /\ ExtractDone
    /\ LET list == ret.args.reviews
       IN  /\ Len(list) = 2
           /\ Get(list[1], "comment", "") = "John was great, ask for John"
           /\ Get(list[2], "comment", "") = "Thanks John!"
           /\ Identifier(list[1]) # Identifier(list[2])
           /\ ret.value.at = [n \in {"John"} |-> 2]

\* C6 (as claimed): for every list of records, with or without identifier fields,
\* the count of each name is the number of records of the list whose comment yields
\* the name.
C6_CountsAreReviews ==
    ExtractDone =>
        \A name \in DOMAIN ret.value.at :
            ret.value.at[name] = Cardinality(Mentioning(name, ret.args.reviews))

----------------------------------------------------------------------------
(* Claims about load_reviews, under SpecLoad *)

LoadDone == ret.op = "load_reviews" /\ ret.existed

WellFormed(file) == file.err = "none"

\* what a file contributes: the elements of the reviews list of an object, an
\* object without reviews itself, the elements of a bare list
Contribution(file) ==
    CASE ~WellFormed(file) -> <<>>
      [] file.type = "dict" /\ "reviews" \in DOMAIN file.data -> file.data.reviews
      [] file.type = "dict" /\ "reviews" \notin DOMAIN file.data -> <<file.data>>
      [] file.type = "list" -> file.data
      [] OTHER -> <<>>

\* the contributions of the files order[1..k], one after the other
RECURSIVE Contributions(_, _, _)
Contributions(files, order, k) ==
    IF k = 0 THEN <<>>
    ELSE Contributions(files, order, k - 1) \o Contribution(files[order[k]])

\* the records of a list, with their multiplicities
RECURSIVE BagOf(_)
BagOf(list) ==
    IF list = <<>> THEN EmptyBag
    ELSE BagOf(Tail(list)) (+) SetToBag({Head(list)})

\* the identity order: the files as the directory lists them
DiskOrder == [i \in 1..Len(review_files) |-> i]

\* C7: the loaded list is the concatenation, in discovery order, of what each file
\* contributes, so its multiset of records is the same for every discovery order.
C7_ConcatenationInDiscoveryOrder ==
    LoadDone =>
        /\ reviews = Contributions(review_files, ret.order, Len(review_files))
        /\ BagOf(reviews) =
             BagOf(Contributions(review_files, DiskOrder, Len(review_files)))

\* C7's case: an object with a reviews list and a bare list, discovered in the
\* other order than the directory lists them, merged into one list.
C7_Witness ==
    /\ LoadDone
    /\ Len(review_files) = 2
    /\ review_files[1].type = "dict" /\ "reviews" \in DOMAIN review_files[1].data
    /\ review_files[2].type = "list"
    /\ Len(review_files[1].data.reviews) = 2
    /\ Len(review_files[2].data) = 1
    /\ ret.order = <<2, 1>>
    /\ Len(reviews) = 3
    /\ reviews # Contributions(review_files, DiskOrder, 2)

\* C8: with a malformed or undecodable file among the discovered files, no
\* exception escapes, the file contributes nothing, and every well-formed file,
\* before or after it, contributes all of its records.
C8_BadFileSkipped ==
    (LoadDone /\ \E k \in DOMAIN review_files : ~WellFormed(review_files[k])) =>
        /\ ret.raised = "none"
        /\ \A k \in DOMAIN review_files :
            LET before == Len(Contributions(review_files, ret.order, k - 1))
                file == review_files[ret.order[k]]
                part == SubSeq(reviews, before + 1, before + Len(Contribution(file)))
            IN  /\ before + Len(Contribution(file)) <= Len(reviews)
                /\ WellFormed(file) => part = Contribution(file)
                /\ ~WellFormed(file) => part = <<>>
        /\ ret.value = Len(Contributions(review_files, ret.order, Len(review_files)))

\* C8's case: an undecodable file discovered first, and the two records of the
\* file discovered after it loaded.
C8_Witness ==
    /\ LoadDone
    /\ Len(review_files) = 2
    /\ review_files[ret.order[1]].err = "UnicodeDecodeError"
    /\ WellFormed(review_files[ret.order[2]])
    /\ ret.value = 2
    /\ Len(reviews) = 2

\* C11 (as claimed): after any sequence of load_reviews calls, the directory
\* present at one call and absent at another, the value the last call returned is
\* the number of records in self.reviews; a call that found the directory absent
\* returned 0 and leaves no record exposed as loaded.
C11_ReturnedCountIsHeldCount ==
    ret.op = "load_reviews" =>
        /\ ret.value = Len(reviews)
        /\ ~ret.existed => (ret.value = 0 /\ reviews = <<>>)

----------------------------------------------------------------------------
(* Claims about export_reviews_to_csv, under SpecExport *)

ExportDone == ret.op = "export_reviews_to_csv" /\ ret.args.reviews # <<>>

\* the field of a record a column is taken from: whether the record has it, and
\* its value
ColumnSource(review, column) ==
    LET field(d, k) == [present |-> k \in DOMAIN d, value |-> Get(d, k, "")]
        reviewer == Get(review, "reviewer", EmptyDict)
        reply == Get(review, "reviewReply", EmptyDict)
    IN  CASE column = "review_id" ->
                IF "reviewId" \in DOMAIN review THEN field(review, "reviewId")
                ELSE field(review, "name")
          [] column = "reviewer_name" -> field(reviewer, "displayName")
          [] column = "star_rating" -> field(review, "starRating")
          [] column = "comment" -> field(review, "comment")
          [] column = "create_time" -> field(review, "createTime")
          [] column = "update_time" -> field(review, "updateTime")
          [] column = "reviewer_photo_url" -> field(reviewer, "profilePhotoUrl")
          [] column = "review_reply" -> field(reply, "comment")

\* one row per record, in input order, under the fixed columns
OneRowPerRecord(file, list) ==
    /\ file.columns = <<"review_id", "reviewer_name", "star_rating", "comment",
                        "create_time", "update_time", "reviewer_photo_url",
                        "review_reply">>
    /\ Len(file.rows) = Len(list)
    /\ \A i \in DOMAIN list : DOMAIN file.rows[i] = Range(file.columns)
    /\ \A i \in DOMAIN list : \A c \in Range(file.columns) :
            ColumnSource(list[i], c).present =>
                file.rows[i][c] = ColumnSource(list[i], c).value

\* C10 (as claimed): one row per record of a non-empty list, in input order, under
\* the fixed columns, and every column whose field is absent from the record holds
\* the empty string.
C10_AbsentFieldsEmpty ==
    ExportDone =>
        /\ ret.args.filename \in DOMAIN csv
        /\ LET file == csv[ret.args.filename]
               list == ret.args.reviews
           IN  /\ OneRowPerRecord(file, list)
               /\ \A i \in DOMAIN list : \A c \in Range(file.columns) :
                      ~ColumnSource(list[i], c).present => file.rows[i][c] = ""

\* C10 (amended): as claimed, except that reviewer_name holds "Anonymous", not the
\* empty string, when the record has no reviewer displayName.
C10_AbsentFieldsDefault ==
    ExportDone =>
        /\ ret.args.filename \in DOMAIN csv
        /\ LET file == csv[ret.args.filename]
               list == ret.args.reviews
           IN  /\ OneRowPerRecord(file, list)
               /\ \A i \in DOMAIN list : \A c \in Range(file.columns) :
                      ~ColumnSource(list[i], c).present =>
                          file.rows[i][c] = IF c = "reviewer_name" THEN "Anonymous" ELSE ""

\* C10's case: two records exported in their order, the first with a reviewer
\* photo and a reply, the second with no field at all.
C10_Witness ==
    /\ ExportDone
    /\ Len(ret.args.reviews) = 2
    /\ "reviewer" \in DOMAIN ret.args.reviews[1]
    /\ ret.args.reviews[2] = EmptyDict
    /\ LET rows == csv[ret.args.filename].rows
       IN  /\ rows[1].reviewer_photo_url = "https://photos/ann"
           /\ rows[1].review_reply = "Thank you"
           /\ rows[2].review_reply = ""
           /\ rows[2].reviewer_name = "Anonymous"

----------------------------------------------------------------------------
(* Claims about analyze, under SpecAnalyze *)

IsExport(e) == e \in {"export_reviews_to_csv", "export_name_analysis_to_csv"}

\* the call ended early: no record loaded, no recognition engine, or no record
\* matching the filter
EndedEarly ==
    \/ reviews = <<>>
    \/ nlp = None
    \/ filter_reviews(reviews, FilterArgsOf(ret.args)) = <<>>

\* C9: in every run of analyze an export happens only after the filtering and
\* after extract_person_names has returned over the whole filtered set; a run that
\* ends early returns ([], {}) and exports nothing.
C9_ExportsAfterAggregation ==
    /\ \A k \in DOMAIN events :
        IsExport(events[k]) =>
            /\ \E i, j \in 1..(k - 1) :
                /\ i < j
                /\ events[i] = "filter_reviews"
                /\ events[j] = "extract_person_names"
            /\ frame.filtered_reviews = filter_reviews(reviews, FilterArgsOf(frame.args))
            /\ frame.name_counts = extract_person_names(nlp, frame.filtered_reviews)
            /\ nlp # None
    /\ (pc # "idle" /\ csv # frame.csv_at_call) => \E k \in DOMAIN events : IsExport(events[k])
    /\ (pc = "idle" /\ ret.op = "analyze" /\ EndedEarly) =>
        /\ ret.value = <<<<>>, EmptyOrderedDict>>
        /\ csv = frame.csv_at_call
        /\ \A k \in DOMAIN events : ~IsExport(events[k])

\* C9's case: a run on an analyzer that holds its reviews and its engine has
\* filtered, extracted and then exported the filtered reviews and the names.
C9_Witness ==
    /\ pc = "return"
    /\ events = <<"filter_reviews", "extract_person_names",
                  "export_reviews_to_csv", "export_name_analysis_to_csv">>
    /\ frame.csv_at_call = EmptyDict
    /\ DOMAIN csv = {"reviews.csv", "names.csv"}
    /\ Len(csv["reviews.csv"].rows) = Len(frame.filtered_reviews)
    /\ frame.name_counts.keys = <<"John">>

====
